---- MODULE Spec2Model ----
(***************************************************************************)
(* MemoryRouter embedding service (modal-embeddings/app.py).               *)
(*                                                                         *)
(* The model follows one HTTP exchange at a time through the FastAPI       *)
(* front-end (web), the remote methods of EmbeddingService that the        *)
(* front-end calls on a model container, the container lifecycle hooks    *)
(* and the scheduled keep_warm function.                                   *)
(*                                                                         *)
(* Texts are sequences of characters; a request list is a sequence of      *)
(* texts; an embedding is a vector of ModelDims numbers.  The weights of   *)
(* the pretrained model are not part of the repository: encode is a        *)
(* deterministic function of (text, normalize), injective on the texts of  *)
(* the pool, so that vectors of different inputs can be told apart.        *)
(***************************************************************************)
EXTENDS Integers, Sequences, FiniteSets, TLC

VARIABLES cstate, model, loads, exchange, lastPing

vars == <<cstate, model, loads, exchange, lastPing>>

----------------------------------------------------------------------------
(* Bounds of the model *)

\* longest list of texts a client sends (beyond the limit of 100)
MaxLen == 102

\* number of container instances the platform may start
NumContainers == 2

\* measured latencies range over 1..MaxLatency
MaxLatency == 1

----------------------------------------------------------------------------
(* Program constants *)

\* app.py:117  len(req.texts) > 100
MaxTexts == 100

\* app.py:39  output width of the model named by model_name
\* (NovaSearch/stella_en_400M_v5 encodes to 1024 dimensions by default)
ModelDims == 1024

\* app.py:89  "dims": 1024
HealthDims == 1024

model_name == "NovaSearch/stella_en_400M_v5"

gpu_name == "Tesla T4"

Containers == 1..NumContainers

Latencies == 1..MaxLatency

----------------------------------------------------------------------------
(* Texts *)

\* the texts clients draw from: "", "a", "a b"
Pool == << <<>>, <<"a">>, <<"a", " ", "b">> >>

PoolTexts == {Pool[j] : j \in 1..Len(Pool)}

\* a list of n texts, cycling through the pool from offset r
TextList(n, r) == [i \in 1..n |-> Pool[((i + r) % Len(Pool)) + 1]]

TextLists == {TextList(n, r) : n \in 0..MaxLen, r \in 1..Len(Pool)}

\* len(t.split()): the number of maximal runs of non-blank characters
RECURSIVE WordCount(_)
WordCount(t) ==
    IF Len(t) = 0 THEN 0
    ELSE LET rest == Tail(t)
             endsWord == Head(t) # " " /\ (Len(rest) = 0 \/ Head(rest) = " ")
         IN  (IF endsWord THEN 1 ELSE 0) + WordCount(rest)

RECURSIVE SumWords(_)
SumWords(texts) ==
    IF Len(texts) = 0 THEN 0 ELSE WordCount(Head(texts)) + SumWords(Tail(texts))

----------------------------------------------------------------------------
(* EmbeddingService: the model container *)

\* a container without the attribute self.model
NoModel == [loaded |-> FALSE]

\* load_model: self.model = SentenceTransformer(model_name); eval(); warmup
load_model(c) ==
    [loaded |-> TRUE, name |-> model_name, dims |-> ModelDims,
     evalMode |-> TRUE, warmed |-> TRUE, owner |-> c]

\* A vector of floats is kept in sparse form: its length and its leading
\* components, every other component being zero.
Vector(len, lead) == [len |-> len, lead |-> lead]

VecLen(v) == v.len

\* the vector of text t: a stand-in for the model's weights, deterministic and
\* different for different (t, normalize)
Encoding(dims, t, normalize) ==
    Vector(dims, <<Len(t) + 1, IF normalize THEN 1 ELSE 2>>)

\* self.model.encode(texts, normalize_embeddings=normalize, convert_to_numpy=True):
\* a 2-D array of shape (len(texts), dims); of an empty list, an empty 1-D array
encode(handle, texts, normalize) ==
    IF Len(texts) = 0
    THEN [shape |-> <<0>>, data |-> <<>>]
    ELSE [shape |-> <<Len(texts), handle.dims>>,
          data  |-> [i \in 1..Len(texts) |-> Encoding(handle.dims, texts[i], normalize)]]

\* ndarray.tolist(): nested lists, one per index of each axis of the shape
tolist(arr) ==
    IF Len(arr.shape) = 1
    THEN [i \in 1..arr.shape[1] |-> arr.data[i]]
    ELSE [i \in 1..arr.shape[1] |-> Vector(arr.shape[2], arr.data[i].lead)]

Raised(error) == [ok |-> FALSE, error |-> error]

Value(v) == [ok |-> TRUE, value |-> v]

\* embed with dims read from the wrong axis of the shape
embed_DimsFromAxis0(self, texts, normalize, latency) ==
    IF ~self.loaded THEN Raised("AttributeError")
    ELSE LET embeddings == encode(self, texts, normalize)
         IN  IF Len(embeddings.shape) < 2 THEN Raised("IndexError")
             ELSE Value([embeddings |-> tolist(embeddings),
                         dims       |-> embeddings.shape[1],
                         count      |-> Len(texts),
                         model      |-> model_name,
                         latency_ms |-> latency])

\* EmbeddingService.embed on the container whose state is self
embed(self, texts, normalize, latency) ==
    IF ~self.loaded THEN Raised("AttributeError")
    ELSE LET embeddings == encode(self, texts, normalize)
         IN  IF Len(embeddings.shape) < 2 THEN Raised("IndexError")
             ELSE Value([embeddings |-> tolist(embeddings),
                         dims       |-> embeddings.shape[2],
                         count      |-> Len(texts),
                         model      |-> model_name,
                         latency_ms |-> latency])

\* health with a status other than the one monitors look for
health_StatusOk(self) ==
    Value([status |-> "ok",
           model  |-> model_name,
           gpu    |-> gpu_name,
           dims   |-> HealthDims])

\* health with the width of a smaller model left in the literal
health_Dims768(self) ==
    Value([status |-> "healthy",
           model  |-> model_name,
           gpu    |-> gpu_name,
           dims   |-> 768])

\* EmbeddingService.health
health(self) ==
    Value([status |-> "healthy",
           model  |-> model_name,
           gpu    |-> gpu_name,
           dims   |-> HealthDims])

\* methods served while the enter hook has not run yet
CanServe_BeforeEnter(c) == cstate[c] \in {"cold", "ready"}

\* @modal.enter(): the platform serves a container's methods only after its
\* enter hook has completed, and never after teardown
CanServe(c) == cstate[c] = "ready"

----------------------------------------------------------------------------
(* web: the FastAPI front-end *)

NoCall == [method |-> "none"]

EmbedCall(texts, normalize) ==
    [method |-> "embed", texts |-> texts, normalize |-> normalize]

HealthCall == [method |-> "health"]

\* raise HTTPException(status, detail): no remote call was made
HTTPException(status, detail) ==
    [call |-> NoCall, by |-> 0, status |-> status, body |-> [detail |-> detail]]

\* service.<method>.remote(...) served by container c, whose state is `self`;
\* the handler returned body after the remote call `call`;
\* an exception of the remote call propagates as a server error
Returned(call, c, result, body) ==
    IF result.ok
    THEN [call |-> call, by |-> c, status |-> 200, body |-> body]
    ELSE [call |-> call, by |-> c, status |-> 500, body |-> [detail |-> result.error]]

\* GET /health
web_health(c, self) ==
    LET result == health(self)
    IN  Returned(HealthCall, c, result, result.value)

\* /embed without the check for an empty list
web_embed_NoEmptyCheck(req, c, self, latency) ==
    IF Len(req.texts) > MaxTexts THEN HTTPException(400, "max 100 texts per request")
    ELSE LET result == embed(self, req.texts, req.normalize, latency)
         IN  Returned(EmbedCall(req.texts, req.normalize), c, result,
                      IF result.ok THEN result.value ELSE <<>>)

\* /embed with the size check off by one
web_embed_OffByOne(req, c, self, latency) ==
    IF Len(req.texts) = 0 THEN HTTPException(400, "texts array required")
    ELSE IF Len(req.texts) >= MaxTexts THEN HTTPException(400, "max 100 texts per request")
    ELSE LET result == embed(self, req.texts, req.normalize, latency)
         IN  Returned(EmbedCall(req.texts, req.normalize), c, result,
                      IF result.ok THEN result.value ELSE <<>>)

\* POST /embed
web_embed(req, c, self, latency) ==
    IF Len(req.texts) = 0 THEN HTTPException(400, "texts array required")
    ELSE IF Len(req.texts) > MaxTexts THEN HTTPException(400, "max 100 texts per request")
    ELSE LET result == embed(self, req.texts, req.normalize, latency)
         IN  Returned(EmbedCall(req.texts, req.normalize), c, result,
                      IF result.ok THEN result.value ELSE <<>>)

\* JSON values of the "input" key of a /v1/embeddings body
Missing == [kind |-> "missing"]
Null == [kind |-> "null"]
Str(s) == [kind |-> "str", val |-> s]
Arr(l) == [kind |-> "list", val |-> l]

\* req.get("input", [])
GetInput(req) == IF req.input.kind = "missing" THEN Arr(<<>>) ELSE req.input

\* a string wrapped only when it is not empty
WrapInput_NonEmptyOnly(input_text) ==
    IF input_text.kind = "str" /\ Len(input_text.val) > 0
    THEN [kind |-> "list", val |-> <<input_text.val>>]
    ELSE input_text

\* if isinstance(input_text, str): input_text = [input_text]
WrapInput(input_text) ==
    IF input_text.kind = "str" THEN Arr(<<input_text.val>>) ELSE input_text

\* Python truth value of a JSON value
Truthy(v) ==
    CASE v.kind = "null" -> FALSE
      [] v.kind = "str"  -> Len(v.val) > 0
      [] v.kind = "list" -> Len(v.val) > 0

\* data with indices counted from one
openai_data_OneBased(embeddings) ==
    [j \in 1..Len(embeddings) |->
       [object |-> "embedding", index |-> j, embedding |-> embeddings[j]]]

\* [{"object": "embedding", "index": i, "embedding": emb}
\*  for i, emb in enumerate(result["embeddings"])]
openai_data(embeddings) ==
    [j \in 1..Len(embeddings) |->
       [object |-> "embedding", index |-> j - 1, embedding |-> embeddings[j]]]

\* POST /v1/embeddings
openai_compatible(req, c, self, latency) ==
    LET input_text == WrapInput(GetInput(req))
    IN  IF ~Truthy(input_text) THEN HTTPException(400, "input required")
        ELSE LET result == embed(self, input_text.val, TRUE, latency)
             IN  Returned(EmbedCall(input_text.val, TRUE), c, result,
                          IF result.ok
                          THEN [object |-> "list",
                                model  |-> result.value.model,
                                data   |-> openai_data(result.value.embeddings),
                                usage  |-> [prompt_tokens |-> SumWords(input_text.val),
                                            total_tokens  |-> SumWords(input_text.val)]]
                          ELSE <<>>)

----------------------------------------------------------------------------
(* Requests *)

\* EmbedRequest(texts: list[str], normalize: bool = True)
EmbedRequests == [texts : TextLists, normalize : BOOLEAN]

OpenAIInputs ==
    {Missing, Null} \cup {Str(t) : t \in PoolTexts} \cup {Arr(l) : l \in TextLists}

OpenAIRequests == [input : OpenAIInputs]

NoExchange == [route |-> "none"]

NoPing == [by |-> 0]

Exchange(route, req, out) ==
    [route |-> route, req |-> req, call |-> out.call, by |-> out.by,
     status |-> out.status, body |-> out.body]

\* a handler that made a remote call was served by a container that can serve
Served(out) == IF out.by = 0 THEN TRUE ELSE CanServe(out.by)

----------------------------------------------------------------------------
(* State machine *)

Init ==
    /\ cstate = [c \in Containers |-> "cold"]
    /\ model = [c \in Containers |-> NoModel]
    /\ loads = [c \in Containers |-> 0]
    /\ exchange = NoExchange
    /\ lastPing = NoPing

\* the platform starts container c and runs its enter hook
ContainerStart(c) ==
    /\ cstate[c] = "cold"
    /\ cstate' = [cstate EXCEPT ![c] = "ready"]
    /\ model' = [model EXCEPT ![c] = load_model(c)]
    /\ loads' = [loads EXCEPT ![c] = @ + 1]
    /\ UNCHANGED <<exchange, lastPing>>

\* container_idle_timeout: the platform tears container c down
ContainerStop(c) ==
    /\ cstate[c] = "ready"
    /\ cstate' = [cstate EXCEPT ![c] = "dead"]
    /\ model' = [model EXCEPT ![c] = NoModel]
    /\ UNCHANGED <<loads, exchange, lastPing>>

HttpHealth ==
    /\ exchange = NoExchange
    /\ \E c \in Containers :
         LET out == web_health(c, model[c])
         IN  /\ Served(out)
             /\ exchange' = Exchange("/health", <<>>, out)
    /\ UNCHANGED <<cstate, model, loads, lastPing>>

HttpEmbed ==
    /\ exchange = NoExchange
    /\ \E req \in EmbedRequests, c \in Containers, latency \in Latencies :
         LET out == web_embed(req, c, model[c], latency)
         IN  /\ Served(out)
             /\ exchange' = Exchange("/embed", req, out)
    /\ UNCHANGED <<cstate, model, loads, lastPing>>

HttpOpenAI ==
    /\ exchange = NoExchange
    /\ \E req \in OpenAIRequests, c \in Containers, latency \in Latencies :
         LET out == openai_compatible(req, c, model[c], latency)
         IN  /\ Served(out)
             /\ exchange' = Exchange("/v1/embeddings", req, out)
    /\ UNCHANGED <<cstate, model, loads, lastPing>>

\* the client reads the response; the front-end keeps nothing of the exchange
ClientReceive ==
    /\ exchange # NoExchange
    /\ exchange' = NoExchange
    /\ UNCHANGED <<cstate, model, loads, lastPing>>

\* keep_warm: result = service.health.remote(); print(result)
keep_warm ==
    /\ \E c \in Containers :
         /\ CanServe(c)
         /\ lastPing' = [by |-> c, result |-> health(model[c])]
    /\ UNCHANGED <<cstate, model, loads, exchange>>

Next ==
    \/ \E c \in Containers : ContainerStart(c)
    \/ \E c \in Containers : ContainerStop(c)
    \/ HttpHealth
    \/ HttpEmbed
    \/ HttpOpenAI
    \/ ClientReceive
    \/ keep_warm

Spec == Init /\ [][Next]_vars

----------------------------------------------------------------------------
(* Properties *)

\* the state of the container that served the current exchange, as it was
\* when it served (a container's model is set by load_model alone)
ServingSelf == IF exchange.by = 0 THEN NoModel ELSE load_model(exchange.by)

\* C1: every call that reaches EmbeddingService.embed, through any route,
\* carries a non-empty list of at most 100 texts.
C1_EmbedCallBounded ==
    (exchange # NoExchange /\ exchange.call.method = "embed")
        => (Len(exchange.call.texts) >= 1 /\ Len(exchange.call.texts) <= MaxTexts)

\* C2: POST /embed with an empty texts list is answered with HTTP 400.
C2_EmbedEmptyRejected ==
    (exchange.route = "/embed" /\ Len(exchange.req.texts) = 0)
        => exchange.status = 400

C2_Witness ==
    /\ exchange.route = "/embed"
    /\ exchange.req.texts = <<>>
    /\ exchange.status = 400
    /\ exchange.call = NoCall

\* C3: POST /embed with more than 100 texts is answered with HTTP 400, and a
\* request with exactly 100 texts passes the size check and reaches embed.
C3_EmbedOversizeRejected ==
    exchange.route = "/embed" =>
        /\ Len(exchange.req.texts) > MaxTexts => exchange.status = 400
        /\ Len(exchange.req.texts) = MaxTexts =>
              (exchange.status # 400 /\ exchange.call.method = "embed")

C3_Witness ==
    /\ exchange.route = "/embed"
    /\ Len(exchange.req.texts) = MaxTexts + 1
    /\ exchange.status = 400

\* C4: for 1 <= N <= 100, POST /embed with N texts returns count = N and N
\* embeddings, each of length dims.
C4_EmbedShape ==
    (/\ exchange.route = "/embed"
     /\ Len(exchange.req.texts) >= 1
     /\ Len(exchange.req.texts) <= MaxTexts)
        => /\ exchange.status = 200
           /\ exchange.body.count = Len(exchange.req.texts)
           /\ Len(exchange.body.embeddings) = Len(exchange.req.texts)
           /\ \A i \in 1..Len(exchange.body.embeddings) :
                 VecLen(exchange.body.embeddings[i]) = exchange.body.dims

C4_Witness ==
    /\ exchange.route = "/embed"
    /\ Len(exchange.req.texts) = MaxTexts
    /\ exchange.status = 200
    /\ exchange.body.count = MaxTexts

\* C5: POST /v1/embeddings with input a single string s is answered as the
\* same request with input [s] is: same status, same call to embed, same body.
C5_StringAsSingleton ==
    (exchange.route = "/v1/embeddings" /\ exchange.req.input.kind = "str")
        => LET twin == openai_compatible([input |-> Arr(<<exchange.req.input.val>>)],
                                         exchange.by, ServingSelf, 1)
           IN  /\ exchange.status = twin.status
               /\ exchange.call = twin.call
               /\ exchange.body = twin.body

C5_Witness ==
    /\ exchange.route = "/v1/embeddings"
    /\ exchange.req.input = Str(<<>>)
    /\ exchange.status = 200
    /\ exchange.call = EmbedCall(<< <<>> >>, TRUE)

\* C6: POST /v1/embeddings is answered with HTTP 400, without a call to embed,
\* whenever input is missing, an empty array or an empty string.
C6_EmptyInputRejected ==
    (/\ exchange.route = "/v1/embeddings"
     /\ \/ exchange.req.input.kind = "missing"
        \/ exchange.req.input \in {Arr(<<>>), Str(<<>>)})
        => (exchange.status = 400 /\ exchange.call = NoCall)

\* container c serves a call in this step
ServesNow(c) ==
    \/ exchange' # exchange /\ exchange'.route # "none" /\ exchange'.by = c
    \/ lastPing' # lastPing /\ lastPing'.by = c

\* C7: a container's model handle is created once, by load_model at container
\* start, before the container serves any embed or health call, and no call
\* replaces it: it changes again only at teardown.
C7_ModelLoadedOnce ==
    [][\A c \in Containers :
          /\ loads'[c] <= 1
          /\ model'[c] # model[c] =>
                \/ /\ cstate[c] = "cold" /\ loads[c] = 0 /\ loads'[c] = 1
                   /\ model'[c] = load_model(c)
                \/ /\ cstate'[c] = "dead" /\ model'[c] = NoModel
          /\ ServesNow(c) =>
                /\ model[c].loaded /\ loads[c] = 1
                /\ model'[c] = model[c] /\ loads'[c] = loads[c]]_vars

C7_Witness ==
    \E c \in Containers :
        /\ model[c].loaded /\ loads[c] = 1
        /\ exchange.route = "/embed" /\ exchange.by = c /\ exchange.status = 200
        /\ lastPing.by = c

\* C8: every health call, through GET /health or keep_warm, returns status
\* "healthy".
C8_HealthAlwaysHealthy ==
    /\ exchange.route = "/health" =>
          (exchange.status = 200 /\ exchange.body.status = "healthy")
    /\ lastPing.by # 0 =>
          (lastPing.result.ok /\ lastPing.result.value.status = "healthy")

C8_Witness ==
    /\ exchange.route = "/health"
    /\ exchange.body.status = "healthy"
    /\ lastPing.by # 0
    /\ lastPing.result.value.status = "healthy"

\* the texts of a /v1/embeddings input, in order
InputTexts(input) == IF input.kind = "str" THEN <<input.val>> ELSE input.val

\* C9: for a valid /v1/embeddings request with N inputs, data has N entries,
\* entry i has index i (from 0) and the vector embed returned for input i.
C9_OpenAIOrder ==
    (/\ exchange.route = "/v1/embeddings"
     /\ exchange.req.input.kind \in {"str", "list"}
     /\ Len(InputTexts(exchange.req.input)) >= 1)
        => LET texts == InputTexts(exchange.req.input)
               returned == embed(ServingSelf, texts, TRUE, 1)
           IN  /\ exchange.status = 200
               /\ Len(exchange.body.data) = Len(texts)
               /\ \A i \in 1..Len(texts) :
                     /\ exchange.body.data[i].index = i - 1
                     /\ exchange.body.data[i].embedding = returned.value.embeddings[i]
                     /\ exchange.body.data[i].embedding =
                            Encoding(ModelDims, texts[i], TRUE)

C9_Witness ==
    /\ exchange.route = "/v1/embeddings"
    /\ exchange.req.input.kind = "list"
    /\ Len(exchange.req.input.val) = 3
    /\ exchange.status = 200
    /\ exchange.body.data[1].embedding # exchange.body.data[2].embedding
    /\ exchange.body.data[3].index = 2

\* C10: the dims reported by health equals the dims of every embed response
\* of the same loaded model.
C10_DimsAgree ==
    (/\ exchange.route = "/embed"
     /\ exchange.status = 200
     /\ lastPing.by = exchange.by)
        => lastPing.result.value.dims = exchange.body.dims

C10_Witness ==
    /\ exchange.route = "/embed"
    /\ exchange.status = 200
    /\ lastPing.by = exchange.by
    /\ lastPing.result.value.dims = exchange.body.dims

====
